---- MODULE Spec2Model ----
(***************************************************************************)
(* Model of the pipelines message reassembler (src/src/main.rs).           *)
(*                                                                         *)
(* A Rust String / &str is modelled as the sequence of its UTF-8 bytes.    *)
(* Option<T> is modelled as NoneVal or [some |-> v].  Result<T, E> is      *)
(* modelled as [ok |-> TRUE, val |-> v] or [ok |-> FALSE, error |-> e], e  *)
(* being the type of the error or, of an anyhow! error, its message; Err   *)
(* stands for an error of whatever kind where only .ok is read.            *)
(***************************************************************************)
EXTENDS Integers, Sequences, FiniteSets, TLC

(***************************************************************************)
(* Bounds of the model.                                                    *)
(***************************************************************************)
\* Under Spec, no line is processed once this many messages are stored in
\* the whole registry.
MaxStored == 2

\* Under SpecOrder, which feeds one pipeline, the same with this many.
MaxHeap == 5

(***************************************************************************)
(* Strings as UTF-8 bytes.                                                 *)
(***************************************************************************)
\* The byte of each character the input lines and the output text use.
Code ==
  [c \in {"0","1","2","3","4","5","6","7","8","9",
          "A","B","C","D","E","F","G","P",
          "a","b","c","d","e","f","i","l","m","n","p","r",
          " ","+","-",".",":","|","\t","\n"} |->
     CASE c = "0" -> 48 [] c = "1" -> 49 [] c = "2" -> 50 [] c = "3" -> 51
       [] c = "4" -> 52 [] c = "5" -> 53 [] c = "6" -> 54 [] c = "7" -> 55
       [] c = "8" -> 56 [] c = "9" -> 57
       [] c = "A" -> 65 [] c = "B" -> 66 [] c = "C" -> 67 [] c = "D" -> 68
       [] c = "E" -> 69 [] c = "F" -> 70 [] c = "G" -> 71 [] c = "P" -> 80
       [] c = "a" -> 97 [] c = "b" -> 98 [] c = "c" -> 99 [] c = "d" -> 100
       [] c = "e" -> 101 [] c = "f" -> 102 [] c = "i" -> 105 [] c = "l" -> 108
       [] c = "m" -> 109 [] c = "n" -> 110 [] c = "p" -> 112 [] c = "r" -> 114
       [] c = " " -> 32 [] c = "+" -> 43 [] c = "-" -> 45 [] c = "." -> 46
       [] c = ":" -> 58 [] c = "|" -> 124 [] c = "\t" -> 9 [] c = "\n" -> 10]

\* The string whose characters are the elements of the tuple t.
Str(t) == [i \in 1..Len(t) |-> Code[t[i]]]

NoneVal == [none |-> TRUE]
Some(v) == [some |-> v]
is_none(o) == o = NoneVal

Err == [ok |-> FALSE]
Error(e) == [ok |-> FALSE, error |-> e]
Ok(v) == [ok |-> TRUE, val |-> v]

\* u8::MAX and the bounds of i16.
u8_MAX == 255
i16_MIN == -32768
i16_MAX == 32767

(***************************************************************************)
(* str::split(" "): the tokens between single spaces, empty ones included. *)
(***************************************************************************)
RECURSIVE split_from(_, _, _)
split_from(line, i, cur) ==
  IF i > Len(line) THEN <<cur>>
  ELSE IF line[i] = Code[" "] THEN <<cur>> \o split_from(line, i + 1, <<>>)
  ELSE split_from(line, i + 1, Append(cur, line[i]))

\* Mutant: splitn(5, " "), the fifth token taking the rest of the line.
splitn_5(line) ==
  LET RECURSIVE from(_, _, _)
      from(i, cur, n) ==
        IF i > Len(line) THEN <<cur>>
        ELSE IF line[i] = Code[" "] /\ n < 5
          THEN <<cur>> \o from(i + 1, <<>>, n + 1)
        ELSE from(i + 1, Append(cur, line[i]), n)
  IN from(1, <<>>, 1)

split(line) == split_from(line, 1, <<>>)

(***************************************************************************)
(* u8::from_str and i16::from_str (core::num, radix 10).                   *)
(***************************************************************************)
IsDigit(b) == b >= 48 /\ b <= 57

RECURSIVE digits_value(_, _)
\* The value of a non-empty all-digit string, acc being the value so far.
digits_value(s, acc) ==
  IF s = <<>> THEN acc ELSE digits_value(Tail(s), acc * 10 + (Head(s) - 48))

AllDigits(s) == \A i \in 1..Len(s) : IsDigit(s[i])

\* An integer of a type with bounds lo..hi; signed types accept a leading
\* "-", every type a leading "+"; a lone sign and the empty string fail.
int_from_str(s, lo, hi, signed) ==
  IF s = <<>> THEN Error("ParseIntError")
  ELSE LET neg  == signed /\ Head(s) = Code["-"]
           sign == Head(s) = Code["+"] \/ neg
           digs == IF sign THEN Tail(s) ELSE s
       IN IF digs = <<>> \/ ~AllDigits(digs) THEN Error("ParseIntError")
          ELSE LET v == IF neg THEN 0 - digits_value(digs, 0)
                        ELSE digits_value(digs, 0)
               IN IF v < lo \/ v > hi THEN Error("ParseIntError") ELSE Ok(v)

u8_from_str(s) == int_from_str(s, 0, u8_MAX, FALSE)
i16_from_str(s) == int_from_str(s, i16_MIN, i16_MAX, TRUE)

(***************************************************************************)
(* Encoding.                                                               *)
(***************************************************************************)
Ascii == 0
Hex == 1

\* Mutant: every code but 0 is taken for Hex.
Encoding_try_from_lenient(value) == IF value = 0 THEN Ok(Ascii) ELSE Ok(Hex)

Encoding_try_from(value) ==
  CASE value = 0 -> Ok(Ascii)
    [] value = 1 -> Ok(Hex)
    [] OTHER -> Error("Not a valid encoding")

\* hex::decode: the value of one hex digit, upper or lower case, or -1.
hex_val(b) ==
  IF b >= 48 /\ b <= 57 THEN b - 48
  ELSE IF b >= 65 /\ b <= 70 THEN b - 55
  ELSE IF b >= 97 /\ b <= 102 THEN b - 87
  ELSE -1

hex_decode(s) ==
  IF Len(s) % 2 # 0 THEN Error("FromHexError")
  ELSE IF \E i \in 1..Len(s) : hex_val(s[i]) = -1 THEN Error("FromHexError")
  ELSE Ok([i \in 1..(Len(s) \div 2) |->
             hex_val(s[2 * i - 1]) * 16 + hex_val(s[2 * i])])

\* String::from_utf8: the well-formed UTF-8 byte sequences.
Cont(b) == b >= 128 /\ b <= 191

RECURSIVE utf8_valid(_)
utf8_valid(b) ==
  IF b = <<>> THEN TRUE
  ELSE LET n  == Len(b)
           b1 == b[1]
       IN IF b1 <= 127 THEN utf8_valid(SubSeq(b, 2, n))
          ELSE IF b1 >= 194 /\ b1 <= 223
            THEN n >= 2 /\ Cont(b[2]) /\ utf8_valid(SubSeq(b, 3, n))
          ELSE IF b1 >= 224 /\ b1 <= 239
            THEN /\ n >= 3
                 /\ b[2] >= (IF b1 = 224 THEN 160 ELSE 128)
                 /\ b[2] <= (IF b1 = 237 THEN 159 ELSE 191)
                 /\ Cont(b[3])
                 /\ utf8_valid(SubSeq(b, 4, n))
          ELSE IF b1 >= 240 /\ b1 <= 244
            THEN /\ n >= 4
                 /\ b[2] >= (IF b1 = 240 THEN 144 ELSE 128)
                 /\ b[2] <= (IF b1 = 244 THEN 143 ELSE 191)
                 /\ Cont(b[3])
                 /\ Cont(b[4])
                 /\ utf8_valid(SubSeq(b, 5, n))
          ELSE FALSE

String_from_utf8(bytes) ==
  IF utf8_valid(bytes) THEN Ok(bytes) ELSE Error("FromUtf8Error")

decode(encoding, msg) ==
  IF encoding = Ascii THEN Ok(msg)
  ELSE LET h == hex_decode(msg)
       IN IF ~h.ok THEN h ELSE String_from_utf8(h.val)

(***************************************************************************)
(* Message, ordered by id alone.                                           *)
(***************************************************************************)
Message_try_from(id, encoding, msg) ==
  LET d == decode(encoding, msg)
  IN IF d.ok THEN Ok([id |-> id, body |-> d.val]) ELSE d

Message_cmp(a, b) ==
  IF a.id < b.id THEN "Less" ELSE IF a.id = b.id THEN "Equal" ELSE "Greater"

Message_le(a, b) == Message_cmp(a, b) \in {"Less", "Equal"}
Message_ge(a, b) == Message_cmp(a, b) \in {"Greater", "Equal"}
Message_lt(a, b) == Message_cmp(a, b) = "Less"

(***************************************************************************)
(* ParsedMessage::parse.                                                   *)
(***************************************************************************)
\* Mutant: the cast to u8 without the check of the range.
next_id_match_cast(next_id) ==
  IF next_id = -1 THEN Ok(NoneVal) ELSE Ok(Some(next_id % (u8_MAX + 1)))

\* The match on the next id parse has read as an i16.
next_id_match(next_id) ==
  IF next_id = -1 THEN Ok(NoneVal)
  ELSE IF next_id >= 0 /\ next_id <= u8_MAX THEN Ok(Some(next_id))
  ELSE Error("Incorrect next id")

parse(line) ==
  LET tokens == split(line)
      tok(k) == IF Len(tokens) >= k THEN Some(tokens[k]) ELSE NoneVal
  IN IF is_none(tok(1)) THEN Error("Missing pipeline id")
     ELSE LET pipeline_id == u8_from_str(tok(1).some)
     IN IF ~pipeline_id.ok THEN pipeline_id
     ELSE IF is_none(tok(2)) THEN Error("Missing id")
     ELSE LET id == u8_from_str(tok(2).some)
     IN IF ~id.ok THEN id
     ELSE IF is_none(tok(3)) THEN Error("Missing id")
     ELSE LET code == u8_from_str(tok(3).some)
     IN IF ~code.ok THEN code
     ELSE LET encoding == Encoding_try_from(code.val)
     IN IF ~encoding.ok THEN encoding
     ELSE IF is_none(tok(4)) THEN Error("Missing msg")
     ELSE LET message == tok(4).some
     IN IF is_none(tok(5)) THEN Error("Missing next_id")
     ELSE LET parsed == i16_from_str(tok(5).some)
     IN IF ~parsed.ok THEN parsed
     ELSE LET next_id == next_id_match(parsed.val)
     IN IF ~next_id.ok THEN next_id
     ELSE Ok([pipeline_id |-> pipeline_id.val, id |-> id.val,
              encoding |-> encoding.val, message |-> message,
              next_id |-> next_id.val])

(***************************************************************************)
(* BinaryHeap<Message>: a max-heap in a vector (positions count from 0).   *)
(***************************************************************************)
at(data, pos) == data[pos + 1]

swap(data, i, j) ==
  [data EXCEPT ![i + 1] = data[j + 1], ![j + 1] = data[i + 1]]

saturating_sub(a, b) == IF a >= b THEN a - b ELSE 0

RECURSIVE sift_up(_, _, _)
\* Moves the element at pos up while it is greater than its parent.
sift_up(data, start, pos) ==
  IF pos > start
    THEN LET parent == (pos - 1) \div 2
         IN IF Message_le(at(data, pos), at(data, parent)) THEN data
            ELSE sift_up(swap(data, pos, parent), start, parent)
    ELSE data

BinaryHeap_push(data, item) == sift_up(Append(data, item), 0, Len(data))

RECURSIVE sift_down_range(_, _, _)
\* Moves the element at pos down within data[0..end).
sift_down_range(data, pos, end) ==
  LET child == 2 * pos + 1
  IN IF child <= saturating_sub(end, 2)
       THEN LET c == IF Message_le(at(data, child), at(data, child + 1))
                       THEN child + 1 ELSE child
            IN IF Message_ge(at(data, pos), at(data, c)) THEN data
               ELSE sift_down_range(swap(data, pos, c), c, end)
       ELSE IF child = end - 1 /\ Message_lt(at(data, pos), at(data, child))
         THEN swap(data, pos, child)
       ELSE data

RECURSIVE sorted_from(_, _)
\* The loop of into_sorted_vec: end counts down to 1.
sorted_from(data, end) ==
  IF end > 1
    THEN sorted_from(sift_down_range(swap(data, 0, end - 1), 0, end - 1), end - 1)
    ELSE data

\* Mutant: the vector of the heap as it is, into_vec for into_sorted_vec.
into_vec(data) == data

into_sorted_vec(data) == sorted_from(data, Len(data))

(***************************************************************************)
(* Pipeline and Pipelines.                                                 *)
(***************************************************************************)
\* Mutant: a new pipeline is closed from the start.
Pipeline_new_closed(id) ==
  [id |-> id, next_id |-> NoneVal, closed |-> TRUE, message |-> <<>>]

Pipeline_new(id) ==
  [id |-> id, next_id |-> NoneVal, closed |-> FALSE, message |-> <<>>]

Pipelines_new(config) ==
  [inner |-> [k \in {} |-> Pipeline_new(k)], config |-> config]

\* Mutant: inserting a new key drops the entries of the other keys.
entry_or_insert_alone(inner, key, value) ==
  IF key \in DOMAIN inner THEN inner ELSE [k \in {key} |-> value]

\* HashMap::entry(key).or_insert(value)
entry_or_insert(inner, key, value) ==
  IF key \in DOMAIN inner THEN inner
  ELSE [k \in DOMAIN inner \cup {key} |-> IF k = key THEN value ELSE inner[k]]

\* Mutant: a closed pipeline is not told apart from an open one.
closed_return_never(pipeline) == FALSE

\* The first early return of insert_message.
closed_return(pipeline) == pipeline.closed

\* Mutant: an out-of-sequence record is never dropped.
discard_return_never(pipeline, msg, config) == FALSE

\* Mutant: an out-of-sequence record is dropped whatever the configuration.
discard_return_always(pipeline, msg, config) ==
  ~is_none(pipeline.next_id) /\ msg.id # pipeline.next_id.some

\* Mutant: the expected id is compared with the next id the record
\* declares, not with the id of the record.
discard_return_on_next(pipeline, msg, config) ==
  /\ ~is_none(pipeline.next_id)
  /\ msg.next_id # pipeline.next_id
  /\ config.discard_invalid_next_id

\* The second early return of insert_message.
discard_return(pipeline, msg, config) ==
  /\ ~is_none(pipeline.next_id)
  /\ msg.id # pipeline.next_id.some
  /\ config.discard_invalid_next_id

\* Mutant: a record that does not decode is stored with its raw body.
store_raw_on_error(pipeline, msg) ==
  LET m == Message_try_from(msg.id, msg.encoding, msg.message)
      v == IF m.ok THEN m.val ELSE [id |-> msg.id, body |-> msg.message]
  IN [pipeline EXCEPT !.message = BinaryHeap_push(@, v)]

\* Mutant: the messages are kept one per id, a message taking the place of
\* the stored one of its id.
store_one_per_id(pipeline, msg) ==
  LET m    == Message_try_from(msg.id, msg.encoding, msg.message)
      held == pipeline.message
  IN IF ~m.ok THEN pipeline
     ELSE IF \E k \in 1..Len(held) : held[k].id = msg.id
       THEN [pipeline EXCEPT !.message =
               [k \in 1..Len(held) |->
                  IF held[k].id = msg.id THEN m.val ELSE held[k]]]
     ELSE [pipeline EXCEPT !.message = BinaryHeap_push(@, m.val)]

\* The match on the conversion to a Message.
store(pipeline, msg) ==
  LET m == Message_try_from(msg.id, msg.encoding, msg.message)
  IN IF m.ok THEN [pipeline EXCEPT !.message = BinaryHeap_push(@, m.val)]
     ELSE pipeline

\* Mutant: a record that ends the chain closes the pipeline and leaves
\* next_id as it was.
advance_keep_on_none(pipeline, msg) ==
  IF is_none(msg.next_id) THEN [pipeline EXCEPT !.closed = TRUE]
  ELSE [pipeline EXCEPT !.next_id = msg.next_id]

\* Mutant: the next id is recorded and the pipeline never closed.
advance_never_closes(pipeline, msg) == [pipeline EXCEPT !.next_id = msg.next_id]

\* The update of next_id and closed that ends insert_message.
advance(pipeline, msg) ==
  LET p == [pipeline EXCEPT !.next_id = msg.next_id]
  IN IF is_none(msg.next_id) THEN [p EXCEPT !.closed = TRUE] ELSE p

insert_message(self, msg) ==
  LET inner    == entry_or_insert(self.inner, msg.pipeline_id,
                                  Pipeline_new(msg.pipeline_id))
      pipeline == inner[msg.pipeline_id]
  IN IF closed_return(pipeline) THEN [self EXCEPT !.inner = inner]
     ELSE IF discard_return(pipeline, msg, self.config)
       THEN [self EXCEPT !.inner = inner]
     ELSE [self EXCEPT !.inner =
             [inner EXCEPT ![msg.pipeline_id] = advance(store(pipeline, msg), msg)]]

(***************************************************************************)
(* Pipelines::display: one element per writeln!.                           *)
(***************************************************************************)
RECURSIVE fmt_u8(_)
\* The decimal digits of n.
fmt_u8(n) ==
  IF n < 10 THEN <<48 + n>> ELSE Append(fmt_u8(n \div 10), 48 + (n % 10))

header_line(pipeline) ==
  Str(<<"P","i","p","e","l","i","n","e",":">>) \o fmt_u8(pipeline.id)
    \o Str(<<"\n">>)

message_line(msg) ==
  Str(<<"\t">>) \o fmt_u8(msg.id) \o Str(<<"|"," ">>) \o msg.body
    \o Str(<<"\n">>)

RECURSIVE insert_sorted(_, _)
insert_sorted(sorted, k) ==
  IF sorted = <<>> THEN <<k>>
  ELSE IF k <= Head(sorted) THEN <<k>> \o sorted
  ELSE <<Head(sorted)>> \o insert_sorted(Tail(sorted), k)

\* Mutant: the keys are left in the order the HashMap yields them.
sort_unstable_skipped(keys) == keys

RECURSIVE sort_unstable_as_text(_)
\* Mutant: the keys are sorted as the strings they are written as, "12"
\* before "2".
sort_unstable_as_text(keys) ==
  LET first_digit(k) == IF k < 10 THEN k ELSE IF k < 100 THEN k \div 10
                        ELSE k \div 100
      before(a, b) == \/ first_digit(a) < first_digit(b)
                      \/ first_digit(a) = first_digit(b) /\ a <= b
      RECURSIVE place(_, _)
      place(sorted, k) ==
        IF sorted = <<>> THEN <<k>>
        ELSE IF before(k, Head(sorted)) THEN <<k>> \o sorted
        ELSE <<Head(sorted)>> \o place(Tail(sorted), k)
  IN IF keys = <<>> THEN <<>>
     ELSE place(sort_unstable_as_text(Tail(keys)), Head(keys))

RECURSIVE sort_unstable(_)
\* The keys in ascending order.
sort_unstable(keys) ==
  IF keys = <<>> THEN <<>>
  ELSE insert_sorted(sort_unstable(Tail(keys)), Head(keys))

\* The lines written for one pipeline: its header, then its messages.
block(pipeline) ==
  LET msgs == into_sorted_vec(pipeline.message)
  IN <<header_line(pipeline)>> \o [i \in 1..Len(msgs) |-> message_line(msgs[i])]

RECURSIVE blocks(_, _)
blocks(inner, keys) ==
  IF keys = <<>> THEN <<>>
  ELSE block(inner[Head(keys)]) \o blocks(inner, Tail(keys))

\* keys_iter is the order in which the HashMap yields its keys.
display(self, keys_iter) == blocks(self.inner, sort_unstable(keys_iter))

\* The orders in which a HashMap may yield its keys.
KeyOrders(inner) ==
  LET n == Cardinality(DOMAIN inner)
  IN {o \in [1..n -> DOMAIN inner] : \A i, j \in 1..n : i # j => o[i] # o[j]}

(***************************************************************************)
(* The input lines the model draws from.                                   *)
(***************************************************************************)
RECURSIVE join(_)
\* The tokens with one space between them.
join(tokens) ==
  IF Len(tokens) = 1 THEN Head(tokens)
  ELSE Head(tokens) \o Str(<<" ">>) \o join(Tail(tokens))

PipelineTokens == {Str(<<"1">>), Str(<<"2">>)}
IdTokens       == {Str(<<"1">>), Str(<<"2">>)}
EncodingTokens == {Str(<<"0">>), Str(<<"1">>)}
BodyTokens     == {Str(<<"4","F">>)}
NextIdTokens   == {Str(<<"-","1">>), Str(<<"1">>), Str(<<"2">>)}

\* Every line "<pipeline_id> <id> <encoding> <body> <next_id>" of the tokens.
RecordLines ==
  {join(<<p, i, e, b, n>>) :
     p \in PipelineTokens, i \in IdTokens, e \in EncodingTokens,
     b \in BodyTokens, n \in NextIdTokens}

\* Every line of the tokens whose body is malformed hex.
UndecodableLines ==
  {join(<<p, i, Str(<<"1">>), Str(<<"4","G">>), n>>) :
     p \in PipelineTokens, i \in IdTokens, n \in NextIdTokens}

\* The lines of scenario C: "1 0 0 a 1" and "1 5 0 b 2".
ScenarioC_first == Str(<<"1"," ","0"," ","0"," ","a"," ","1">>)
ScenarioC_second == Str(<<"1"," ","5"," ","0"," ","b"," ","2">>)

\* Lines of other shapes that parse: hex of odd length, hex that is no
\* UTF-8, hex of a two-byte character, trailing tokens, signs and a
\* leading zero, a pipeline of a two-digit id whose record does not decode.
OtherLines ==
  { Str(<<"1"," ","1"," ","1"," ","4"," ","2">>),
    Str(<<"1"," ","2"," ","1"," ","C","3"," ","-","1">>),
    Str(<<"2"," ","1"," ","1"," ","c","3","a","9"," ","1">>),
    Str(<<"1"," ","1"," ","0"," ","4","F"," ","2"," ","e","r","r"," ","1">>),
    Str(<<"+","1"," ","0","2"," ","0"," ","4","F"," ","+","1">>),
    Str(<<"1","2"," ","8"," ","1"," ","4","G"," ","2">>),
    ScenarioC_first,
    ScenarioC_second }

\* Lines the parser rejects: the empty line, a missing token, a token that
\* is no number of its type (pipeline id, id, encoding, next id), an unknown
\* encoding code, a next id outside -1..255.
MalformedLines ==
  { Str(<<>>),
    Str(<<"e","r","r">>),
    Str(<<"1","2"," ","8"," ","m",".",".",".">>),
    Str(<<" ","1"," ","1"," ","0"," ","4","F"," ","1">>),
    Str(<<"1"," "," ","1"," ","0"," ","4","F"," ","1">>),
    Str(<<"1"," ","1"," ","0"," ","4","F">>),
    Str(<<"1"," ","1"," ","0"," ","4","F"," ">>),
    Str(<<"2","5","6"," ","1"," ","0"," ","4","F"," ","1">>),
    Str(<<"1"," ","-","1"," ","0"," ","4","F"," ","1">>),
    Str(<<"1"," ","1"," ","2"," ","4","F"," ","1">>),
    Str(<<"1"," ","1"," ","a"," ","4","F"," ","1">>),
    Str(<<"1"," ","1"," ","0"," ","4","F"," ","2","5","6">>),
    Str(<<"1"," ","1"," ","0"," ","4","F"," ","-","2">>),
    Str(<<"1"," ","1"," ","0"," ","4","F"," ","-">>) }

Lines == RecordLines \cup UndecodableLines \cup OtherLines \cup MalformedLines

\* The parse of every line.
Parsed == [line \in Lines |-> parse(line)]

Configs == [discard_invalid_next_id : BOOLEAN]

(***************************************************************************)
(* The state.                                                              *)
(***************************************************************************)
VARIABLES
  pipelines,  \* the registry: [inner, config]
  written,    \* what the latest render wrote, NoneVal once a record has
              \* been inserted since
  op,         \* the latest operation; of an insert_message, its record and
              \* the branch it took
  chain,      \* per pipeline, the next_id of the latest chain-accepted record
  inserted,   \* the pipeline ids of the records passed to insert_message
  stdin,      \* the standard input of main: its lines and how many are read
  pc          \* where main is: "loop", "done"; "test" in the test functions

vars == <<pipelines, written, op, chain, inserted, stdin, pc>>

\* The number of messages stored in the whole registry.
RECURSIVE TotalStored(_, _)
TotalStored(inner, keys) ==
  IF keys = {} THEN 0
  ELSE LET k == CHOOSE x \in keys : TRUE
       IN Len(inner[k].message) + TotalStored(inner, keys \ {k})

\* The branch insert_message takes: "closed" and "discarded" are its early
\* returns, "stored" and "undecodable" the arms of its match.
outcome(self, msg) ==
  LET pipeline == entry_or_insert(self.inner, msg.pipeline_id,
                                  Pipeline_new(msg.pipeline_id))[msg.pipeline_id]
  IN IF closed_return(pipeline) THEN "closed"
     ELSE IF discard_return(pipeline, msg, self.config) THEN "discarded"
     ELSE IF Message_try_from(msg.id, msg.encoding, msg.message).ok THEN "stored"
     ELSE "undecodable"

\* A record that passes both early returns of insert_message.
chain_accepted(self, msg) == outcome(self, msg) \in {"stored", "undecodable"}

Init ==
  /\ \E config \in Configs : pipelines = Pipelines_new(config)
  /\ written = NoneVal
  /\ op = [kind |-> "new"]
  /\ chain = [k \in {} |-> NoneVal]
  /\ inserted = {}
  /\ stdin = [lines |-> <<>>, pos |-> 0]
  /\ pc = "test"

\* One turn of the loop over the input lines: parse the line, insert the
\* record if there is one.
ProcessLine(line, limit) ==
  /\ TotalStored(pipelines.inner, DOMAIN pipelines.inner) < limit
  /\ LET r == Parsed[line]
     IN IF r.ok
          THEN /\ pipelines' = insert_message(pipelines, r.val)
               /\ written' = NoneVal
               /\ op' = [kind |-> "insert_message", msg |-> r.val,
                         outcome |-> outcome(pipelines, r.val)]
               /\ chain' = IF chain_accepted(pipelines, r.val)
                             THEN [k \in DOMAIN chain \cup {r.val.pipeline_id} |->
                                     IF k = r.val.pipeline_id THEN r.val.next_id
                                     ELSE chain[k]]
                             ELSE chain
               /\ inserted' = inserted \cup {r.val.pipeline_id}
          ELSE /\ op' = [kind |-> "parse_error"]
               /\ UNCHANGED <<pipelines, written, chain, inserted>>
  /\ UNCHANGED <<stdin, pc>>

\* Mutant: the render takes the registry and leaves a default one behind.
Fmt_take(keys_iter) ==
  /\ written' = Some(display(pipelines, keys_iter))
  /\ op' = [kind |-> "fmt"]
  /\ pipelines' = Pipelines_new([discard_invalid_next_id |-> FALSE])
  /\ UNCHANGED <<chain, inserted, stdin, pc>>

\* Display::fmt: display on a clone of the registry.
Fmt(keys_iter) ==
  /\ written' = Some(display(pipelines, keys_iter))
  /\ op' = [kind |-> "fmt"]
  /\ UNCHANGED <<pipelines, chain, inserted, stdin, pc>>

Next ==
  \/ \E line \in Lines : ProcessLine(line, MaxStored)
  \/ \E keys_iter \in KeyOrders(pipelines.inner) : Fmt(keys_iter)

Spec == Init /\ [][Next]_vars

\* The lines of pipeline 1 whose record is decodable and keeps the pipeline
\* open: every one of them that is chain-accepted stores a message.
OrderLines ==
  {line \in Lines :
     /\ Parsed[line].ok
     /\ Parsed[line].val.pipeline_id = 1
     /\ ~is_none(Parsed[line].val.next_id)
     /\ decode(Parsed[line].val.encoding, Parsed[line].val.message).ok}

NextOrder ==
  \/ \E line \in OrderLines : ProcessLine(line, MaxHeap)
  \/ \E keys_iter \in KeyOrders(pipelines.inner) : Fmt(keys_iter)

SpecOrder == Init /\ [][NextOrder]_vars

(***************************************************************************)
(* The parser alone, on lines that differ in their next id token or in     *)
(* what follows their fifth token.                                         *)
(***************************************************************************)
MaxNextId == 300

RECURSIVE digits(_)
\* The decimal digits of a natural number.
digits(n) ==
  IF n < 10 THEN <<48 + n>> ELSE Append(digits(n \div 10), 48 + (n % 10))

\* The decimal text of an integer.
decimal(n) == IF n < 0 THEN Str(<<"-">>) \o digits(0 - n) ELSE digits(n)

\* The next ids tried: those about the range -1..255 and those about the
\* ends of i16.
NextIdValues ==
  ((0 - MaxNextId)..MaxNextId)
    \cup ((i16_MIN - 2)..(i16_MIN + 2)) \cup ((i16_MAX - 2)..(i16_MAX + 2))

\* The line of pipeline 1, id 1, Ascii body "4F" that declares n as next.
NextIdLine ==
  [n \in NextIdValues |->
     join(<<Str(<<"1">>), Str(<<"1">>), Str(<<"0">>), Str(<<"4","F">>),
            decimal(n)>>)]

\* The lines of five tokens that parse.
FiveTokenLines == {line \in Lines : Parsed[line].ok /\ Len(split(line)) = 5}

\* What may follow the fifth token: a space, then whatever.
TrailingTokens ==
  { Str(<<" ">>),
    Str(<<" ","e","r","r">>),
    Str(<<" ","e","r","r"," ","1">>),
    Str(<<" ","-","1">>),
    Str(<<" "," ","2">>),
    Str(<<" ","1"," ","1"," ","0"," ","4","F"," ","1">>) }

WithTrailing ==
  [t \in FiveTokenLines \X TrailingTokens |-> t[1] \o t[2]]

ParseLines ==
  {NextIdLine[n] : n \in NextIdValues}
    \cup FiveTokenLines
    \cup {WithTrailing[t] : t \in FiveTokenLines \X TrailingTokens}

\* ParsedMessage::parse on one line, outside any registry.
Parse(line) ==
  /\ op' = [kind |-> "parse", line |-> line, result |-> parse(line)]
  /\ UNCHANGED <<pipelines, written, chain, inserted, stdin, pc>>

NextParse == \E line \in ParseLines : Parse(line)

SpecParse == Init /\ [][NextParse]_vars

(***************************************************************************)
(* main: the loop over the lines of the standard input.                    *)
(***************************************************************************)
MaxInput == 3

PipelinesConfig_default == [discard_invalid_next_id |-> FALSE]

\* What lines.next() may yield: a line, or the error of a read.
MainLines ==
  { Str(<<>>),
    Str(<<"e","r","r">>),
    Str(<<"1"," ","1"," ","0"," ","4","F"," ","2">>),
    Str(<<"1"," ","2"," ","1"," ","4","F"," ","-","1">>),
    Str(<<"2"," ","1"," ","1"," ","4","G"," ","1">>) }

MainItems == {Ok(line) : line \in MainLines} \cup {Error("io::Error")}

\* The standard inputs of at most MaxInput items.
MainInputs == UNION {[1..n -> MainItems] : n \in 0..MaxInput}

\* Mutant: no line counts as empty.
is_empty_never(line) == FALSE

\* String::is_empty.
is_empty(line) == Len(line) = 0

InitMain ==
  /\ pipelines = Pipelines_new(PipelinesConfig_default)
  /\ written = NoneVal
  /\ op = [kind |-> "new"]
  /\ chain = [k \in {} |-> NoneVal]
  /\ inserted = {}
  /\ \E lines \in MainInputs : stdin = [lines |-> lines, pos |-> 0]
  /\ pc = "loop"

\* lines.next() yields None or an error: the while let ends.
MainEnd ==
  /\ pc = "loop"
  /\ \/ /\ stdin.pos = Len(stdin.lines)
        /\ stdin' = stdin
     \/ /\ stdin.pos < Len(stdin.lines)
        /\ ~stdin.lines[stdin.pos + 1].ok
        /\ stdin' = [stdin EXCEPT !.pos = @ + 1]
  /\ pc' = "done"
  /\ op' = [kind |-> "end"]
  /\ UNCHANGED <<pipelines, written, chain, inserted>>

\* lines.next() yields an empty line: break.
MainBreak ==
  /\ pc = "loop"
  /\ stdin.pos < Len(stdin.lines)
  /\ stdin.lines[stdin.pos + 1].ok
  /\ is_empty(stdin.lines[stdin.pos + 1].val)
  /\ stdin' = [stdin EXCEPT !.pos = @ + 1]
  /\ pc' = "done"
  /\ op' = [kind |-> "break"]
  /\ UNCHANGED <<pipelines, written, chain, inserted>>

\* lines.next() yields any other line: it is parsed and its record, if
\* there is one, inserted.
MainLine ==
  /\ pc = "loop"
  /\ stdin.pos < Len(stdin.lines)
  /\ stdin.lines[stdin.pos + 1].ok
  /\ ~is_empty(stdin.lines[stdin.pos + 1].val)
  /\ stdin' = [stdin EXCEPT !.pos = @ + 1]
  /\ LET r == parse(stdin.lines[stdin.pos + 1].val)
     IN IF r.ok
          THEN /\ pipelines' = insert_message(pipelines, r.val)
               /\ op' = [kind |-> "insert_message", msg |-> r.val,
                         outcome |-> outcome(pipelines, r.val)]
               /\ chain' = IF chain_accepted(pipelines, r.val)
                             THEN [k \in DOMAIN chain \cup {r.val.pipeline_id} |->
                                     IF k = r.val.pipeline_id THEN r.val.next_id
                                     ELSE chain[k]]
                             ELSE chain
               /\ inserted' = inserted \cup {r.val.pipeline_id}
          ELSE /\ op' = [kind |-> "parse_error"]
               /\ UNCHANGED <<pipelines, chain, inserted>>
  /\ UNCHANGED <<written, pc>>

NextMain == MainEnd \/ MainBreak \/ MainLine

SpecMain == InitMain /\ [][NextMain]_vars

(***************************************************************************)
(* Definitions the properties share.                                       *)
(***************************************************************************)
inner == pipelines.inner

\* The step inserts a record (the parse of its line succeeded).
Inserting == op'.kind = "insert_message"

\* The pipeline the record of the step is inserted under, as the step finds
\* it: a fresh one when the registry has none of that id.
Target ==
  IF op'.msg.pipeline_id \in DOMAIN inner THEN inner[op'.msg.pipeline_id]
  ELSE Pipeline_new(op'.msg.pipeline_id)

\* The same pipeline after the step.
Target_after == pipelines'.inner[op'.msg.pipeline_id]

\* The record of the step meets the spec's conditions of chain acceptance.
Accepting ==
  /\ ~Target.closed
  /\ \/ is_none(Target.next_id)
     \/ op'.msg.id = Target.next_id.some
     \/ ~pipelines.config.discard_invalid_next_id

\* s and t hold the same elements, each as many times.
SameBag(s, t) ==
  /\ Len(s) = Len(t)
  /\ \A i \in 1..Len(s) :
       Cardinality({j \in 1..Len(s) : s[j] = s[i]})
         = Cardinality({j \in 1..Len(t) : t[j] = s[i]})

(***************************************************************************)
(* C1: once a pipeline has chain-accepted a record whose declared next id  *)
(* is none, no later step changes its closed flag, its expected_next or    *)
(* its stored messages, whatever record is inserted and whatever the       *)
(* discard_invalid_next_id setting.                                        *)
(***************************************************************************)
C1_ClosingIsPermanent ==
  [][\A p \in DOMAIN chain :
       is_none(chain[p]) =>
         /\ p \in DOMAIN pipelines'.inner
         /\ pipelines'.inner[p] = inner[p]
         /\ inner[p].closed]_vars

\* A record that declares a next id has been inserted under a pipeline whose
\* latest chain-accepted record declared none, and it took the closed branch.
C1_Witness ==
  /\ op.kind = "insert_message"
  /\ op.outcome = "closed"
  /\ ~is_none(op.msg.next_id)
  /\ op.msg.pipeline_id \in DOMAIN chain
  /\ is_none(chain[op.msg.pipeline_id])
  /\ Len(inner[op.msg.pipeline_id].message) > 0

(***************************************************************************)
(* C2: with discard_invalid_next_id = true, inserting a record whose id    *)
(* differs from the expected_next its pipeline has set changes nothing:    *)
(* the registry, and with it the pipeline's expected_next, closed flag and *)
(* messages, is the same after the call as before.                         *)
(***************************************************************************)
C2_DiscardChangesNothing ==
  [][(/\ Inserting
      /\ pipelines.config.discard_invalid_next_id
      /\ op'.msg.pipeline_id \in DOMAIN inner
      /\ ~is_none(Target.next_id)
      /\ op'.msg.id # Target.next_id.some)
     => pipelines' = pipelines /\ chain' = chain]_vars

\* An open pipeline with an expectation has just been given a decodable
\* record of another id, under the discard policy.
C2_Witness ==
  /\ op.kind = "insert_message"
  /\ op.outcome = "discarded"
  /\ pipelines.config.discard_invalid_next_id
  /\ ~inner[op.msg.pipeline_id].closed
  /\ op.msg.id # inner[op.msg.pipeline_id].next_id.some
  /\ decode(op.msg.encoding, op.msg.message).ok

(***************************************************************************)
(* C3: a chain-accepted record whose payload does not decode sets the      *)
(* pipeline's expected_next to the record's declared next id, closes the   *)
(* pipeline exactly when that is none, and leaves the pipeline's messages  *)
(* as they were.                                                           *)
(***************************************************************************)
C3_UndecodableStillAdvances ==
  [][(/\ Inserting
      /\ Accepting
      /\ ~decode(op'.msg.encoding, op'.msg.message).ok)
     => /\ Target_after.next_id = op'.msg.next_id
        /\ Target_after.closed = is_none(op'.msg.next_id)
        /\ Target_after.message = Target.message]_vars

\* A record with malformed hex and no declared next id has just closed a
\* pipeline that holds a message and expected another next id.
C3_Witness ==
  /\ op.kind = "insert_message"
  /\ op.outcome = "undecodable"
  /\ op.msg.encoding = Hex
  /\ is_none(op.msg.next_id)
  /\ inner[op.msg.pipeline_id].closed
  /\ Len(inner[op.msg.pipeline_id].message) > 0

(***************************************************************************)
(* C4: every pipeline that has chain-accepted a record has, as its         *)
(* expected_next, the declared next id of the latest record it             *)
(* chain-accepted, whether that record decoded and whatever records were   *)
(* ignored since.                                                          *)
(***************************************************************************)
C4_ExpectedNextIsLatestDeclared ==
  \A p \in DOMAIN chain :
    p \in DOMAIN inner /\ inner[p].next_id = chain[p]

\* A record has just been dropped as out of sequence from a pipeline whose
\* expected_next differs from the dropped record's declared next id.
C4_Witness ==
  /\ op.kind = "insert_message"
  /\ op.outcome = "discarded"
  /\ op.msg.pipeline_id \in DOMAIN chain
  /\ ~is_none(chain[op.msg.pipeline_id])
  /\ op.msg.next_id # chain[op.msg.pipeline_id]

(***************************************************************************)
(* Reading the rendered text back: the lines of written are the header     *)
(* lines "Pipeline:<id>\n" and the message lines "\t<id>| <body>\n".        *)
(***************************************************************************)
IsHeader(l) == l[1] = Code["P"]

header_id(l) == digits_value(SubSeq(l, 10, Len(l) - 1), 0)

\* The position of the first "|" of a message line.
bar(l) ==
  CHOOSE i \in 1..Len(l) :
    l[i] = Code["|"] /\ \A j \in 1..(i - 1) : l[j] # Code["|"]

line_message(l) ==
  [id   |-> digits_value(SubSeq(l, 2, bar(l) - 1), 0),
   body |-> SubSeq(l, bar(l) + 2, Len(l) - 1)]

\* The positions of the header lines of pipeline p.
Headers(text, p) ==
  {i \in 1..Len(text) : IsHeader(text[i]) /\ header_id(text[i]) = p}

\* The messages listed between the header at position h and the next one.
BlockAt(text, h) ==
  LET later == {j \in (h + 1)..Len(text) : IsHeader(text[j])}
      last  == IF later = {} THEN Len(text)
               ELSE (CHOOSE j \in later : \A k \in later : j <= k) - 1
  IN [k \in 1..(last - h) |-> line_message(text[h + k])]

\* The messages of the rendered block of pipeline p.
RenderedBlock(text, p) == BlockAt(text, CHOOSE h \in Headers(text, p) : TRUE)

\* The text shows, for pipeline p, one block that lists the stored messages
\* of p and nothing else.
ShowsStored(text, p) ==
  /\ Cardinality(Headers(text, p)) = 1
  /\ SameBag(RenderedBlock(text, p), inner[p].message)

(***************************************************************************)
(* C5 as claimed: the rendered block of a pipeline lists its messages in   *)
(* strictly ascending order of id.                                         *)
(***************************************************************************)
C5_StrictlyAscending ==
  ~is_none(written) =>
    \A p \in DOMAIN inner :
      LET blk == RenderedBlock(written.some, p)
      IN \A i, j \in 1..Len(blk) : i < j => blk[i].id < blk[j].id

(***************************************************************************)
(* C5 as amended: the rendered block of a pipeline lists exactly its       *)
(* stored messages, in ascending order of id whatever the order of         *)
(* arrival: never a greater id before a smaller one, messages of equal id  *)
(* next to each other, so strictly ascending when the ids are distinct.    *)
(***************************************************************************)
C5_Ascending ==
  ~is_none(written) =>
    \A p \in DOMAIN inner :
      /\ ShowsStored(written.some, p)
      /\ LET blk == RenderedBlock(written.some, p)
         IN \A i, j \in 1..Len(blk) : i < j => blk[i].id <= blk[j].id

\* A render of a pipeline of five messages, of four ids, that the heap
\* holds in another order than the rendered one.
C5_Witness ==
  /\ op.kind = "fmt"
  /\ 1 \in DOMAIN inner
  /\ Len(inner[1].message) = 5
  /\ Cardinality({inner[1].message[i].id : i \in 1..5}) = 4
  /\ RenderedBlock(written.some, 1) # inner[1].message

(***************************************************************************)
(* C6 as claimed, for the message stored last: messages of equal id are    *)
(* listed in the order of their insertion, so in a render that follows the *)
(* insertion of a message, that message is the last of its id in its       *)
(* pipeline's block.                                                       *)
(***************************************************************************)
C6_EqualIdsInInsertionOrder ==
  [][(/\ op.kind = "insert_message"
      /\ op.outcome = "stored"
      /\ op'.kind = "fmt")
     => LET blk  == RenderedBlock(written'.some, op.msg.pipeline_id)
            same == {i \in 1..Len(blk) : blk[i].id = op.msg.id}
            last == CHOOSE i \in same : \A k \in same : k <= i
        IN blk[last].body = decode(op.msg.encoding, op.msg.message).val]_vars

(***************************************************************************)
(* C7: inserting a record changes no pipeline but the one of the record's  *)
(* pipeline id: every other pipeline keeps its expected_next, closed flag  *)
(* and messages; and the rendered block of a pipeline lists the messages   *)
(* stored under that pipeline and no other.                                *)
(***************************************************************************)
C7_Isolation ==
  /\ [][Inserting =>
          \A q \in DOMAIN inner \ {op'.msg.pipeline_id} :
            q \in DOMAIN pipelines'.inner /\ pipelines'.inner[q] = inner[q]]_vars
  /\ [](~is_none(written) =>
          \A q \in DOMAIN inner : ShowsStored(written.some, q))

\* A message has just been stored under one pipeline while another pipeline
\* holds a different message.
C7_Witness ==
  /\ op.kind = "insert_message"
  /\ op.outcome = "stored"
  /\ \E q \in DOMAIN inner \ {op.msg.pipeline_id} :
       /\ Len(inner[q].message) = 1
       /\ inner[q].message # inner[op.msg.pipeline_id].message

(***************************************************************************)
(* C8: rendering changes no pipeline, and a render that follows a render   *)
(* with no insert_message in between writes the same text.                 *)
(***************************************************************************)
C8_RenderIsIdempotent ==
  [][op'.kind = "fmt" =>
       /\ pipelines' = pipelines
       /\ chain' = chain
       /\ (~is_none(written) => written' = written)]_vars

\* A render of a registry of two pipelines that hold a message each.
C8_Witness ==
  /\ op.kind = "fmt"
  /\ Cardinality(DOMAIN inner) = 2
  /\ \A p \in DOMAIN inner : Len(inner[p].message) = 1
  /\ Len(written.some) = 4

(***************************************************************************)
(* C9: every malformed line fails to parse, and a line that fails to parse *)
(* changes nothing: no pipeline is created or changed and no message is    *)
(* stored, so the lines after it find the state the lines before it left.  *)
(***************************************************************************)
C9_BadLineIsDiscarded ==
  [][/\ \A line \in MalformedLines : ~Parsed[line].ok
     /\ op'.kind = "parse_error" => UNCHANGED <<pipelines, chain, written>>]_vars

\* A line has just failed to parse in a registry that holds a message.
C9_Witness ==
  /\ op.kind = "parse_error"
  /\ \E p \in DOMAIN inner : Len(inner[p].message) > 0

(***************************************************************************)
(* C10: a record for a pipeline that is not closed is chain-accepted when  *)
(* the pipeline has no expectation, or the record's id is the expected     *)
(* one, or discard_invalid_next_id is false: expected_next and closed are  *)
(* set from its declared next id, and its message is stored if it          *)
(* decodes.  With discard_invalid_next_id = false, "1 0 0 a 1" on a new     *)
(* registry then "1 5 0 b 2" leave both messages stored and                *)
(* expected_next = 2.                                                      *)
(***************************************************************************)
C10_ChainAccepted ==
  [][/\ (Inserting /\ Accepting) =>
          /\ Target_after.next_id = op'.msg.next_id
          /\ Target_after.closed = is_none(op'.msg.next_id)
          /\ LET d == decode(op'.msg.encoding, op'.msg.message)
             IN IF d.ok
                  THEN SameBag(Target_after.message,
                               Append(Target.message,
                                      [id |-> op'.msg.id, body |-> d.val]))
                  ELSE Target_after.message = Target.message
     /\ (/\ ~pipelines.config.discard_invalid_next_id
         /\ op.kind = "insert_message"
         /\ op.msg = Parsed[ScenarioC_first].val
         /\ pipelines = insert_message(Pipelines_new(pipelines.config), op.msg)
         /\ Inserting
         /\ op'.msg = Parsed[ScenarioC_second].val) =>
          /\ Target_after.next_id = Some(2)
          /\ ~Target_after.closed
          /\ SameBag(Target_after.message,
                     <<[id |-> 0, body |-> Str(<<"a">>)],
                       [id |-> 5, body |-> Str(<<"b">>)]>>)]_vars

\* Scenario C has run: "1 5 0 b 2" has just been stored, with policy off,
\* in a pipeline that held the message of "1 0 0 a 1" and nothing else.
C10_Witness ==
  /\ ~pipelines.config.discard_invalid_next_id
  /\ DOMAIN inner = {1}
  /\ op.kind = "insert_message"
  /\ op.outcome = "stored"
  /\ op.msg = Parsed[ScenarioC_second].val
  /\ inner[1].next_id = Some(2)
  /\ SameBag(inner[1].message,
             <<[id |-> 0, body |-> Str(<<"a">>)],
               [id |-> 5, body |-> Str(<<"b">>)]>>)

(***************************************************************************)
(* C11: a render writes exactly one header per pipeline of the registry,   *)
(* the headers in ascending order of the pipeline id as a number, whatever *)
(* the order in which the pipelines were created and the map yields them;  *)
(* a pipeline that holds no message has its header all the same.           *)
(***************************************************************************)
C11_OneBlockPerPipelineAscending ==
  ~is_none(written) =>
    LET text == written.some
        H    == {i \in 1..Len(text) : IsHeader(text[i])}
    IN /\ \A p \in DOMAIN inner : Cardinality(Headers(text, p)) = 1
       /\ \A i \in H : header_id(text[i]) \in DOMAIN inner
       /\ \A i, j \in H :
            i < j => header_id(text[i]) < header_id(text[j])

\* A render of the pipelines 1, 2 and 12, pipeline 12 holding no message
\* since its record did not decode.
C11_Witness ==
  /\ op.kind = "fmt"
  /\ DOMAIN inner = {1, 2, 12}
  /\ inner[12].message = <<>>
  /\ inner[2].message # <<>>
  /\ \E i \in Headers(written.some, 2), j \in Headers(written.some, 12) : i < j

(***************************************************************************)
(* C12 as claimed: the next id token is read as a signed integer; -1 is    *)
(* no next id, 0..255 is that byte, and every other value fails with the   *)
(* error of an incorrect next id.                                          *)
(***************************************************************************)
C12_OutsideIsIncorrectNextId ==
  \A n \in NextIdValues :
    op.kind = "parse" /\ op.line = NextIdLine[n] =>
      IF n = -1 THEN op.result.ok /\ op.result.val.next_id = NoneVal
      ELSE IF n \in 0..255
        THEN op.result.ok /\ op.result.val.next_id = Some(n)
      ELSE op.result = Error("Incorrect next id")

(***************************************************************************)
(* C12 as amended: -1 is no next id, 0..255 is that byte, every other      *)
(* value yields no record: with the error of an incorrect next id when it  *)
(* fits 16 signed bits, with the error of the integer conversion when it   *)
(* does not.                                                               *)
(***************************************************************************)
C12_NextIdRange ==
  \A n \in NextIdValues :
    op.kind = "parse" /\ op.line = NextIdLine[n] =>
      IF n = -1 THEN op.result.ok /\ op.result.val.next_id = NoneVal
      ELSE IF n \in 0..255
        THEN op.result.ok /\ op.result.val.next_id = Some(n)
      ELSE IF n \in i16_MIN..i16_MAX
        THEN op.result = Error("Incorrect next id")
      ELSE op.result = Error("ParseIntError")

\* The next id 256, one past the greatest byte, is rejected as incorrect.
C12_Witness ==
  /\ op.kind = "parse"
  /\ op.line = NextIdLine[256]
  /\ op.result = Error("Incorrect next id")

(***************************************************************************)
(* C13: the parser reads the first five tokens only: a line of five valid  *)
(* tokens followed by a space and anything more yields the record of the   *)
(* line without what follows.                                              *)
(***************************************************************************)
C13_TrailingTokensIgnored ==
  \A t \in FiveTokenLines \X TrailingTokens :
    op.kind = "parse" /\ op.line = WithTrailing[t] =>
      op.result.ok /\ op.result = Parsed[t[1]]

\* "1 1 0 4F 2 err 1" has parsed to the record of "1 1 0 4F 2".
C13_Witness ==
  /\ op.kind = "parse"
  /\ op.line = Str(<<"1"," ","1"," ","0"," ","4","F"," ","2",
                     " ","e","r","r"," ","1">>)
  /\ op.result = Ok([pipeline_id |-> 1, id |-> 1, encoding |-> Ascii,
                     message |-> Str(<<"4","F">>), next_id |-> Some(2)])

(***************************************************************************)
(* C14: the pipelines of the registry are those of the ids of the records  *)
(* passed to insert_message, no more and no fewer; the first record of an  *)
(* id creates the pipeline and is applied to it as to a pipeline that is   *)
(* open, expects nothing and holds nothing: it is never ignored, its       *)
(* next id becomes the expected one, and its message, if it decodes, is    *)
(* the one message stored.                                                 *)
(***************************************************************************)
C14_CreatedByFirstRecord ==
  /\ [](DOMAIN inner = inserted)
  /\ [][Inserting /\ op'.msg.pipeline_id \notin DOMAIN inner =>
          /\ op'.outcome \in {"stored", "undecodable"}
          /\ Target_after.id = op'.msg.pipeline_id
          /\ Target_after.next_id = op'.msg.next_id
          /\ Target_after.closed = is_none(op'.msg.next_id)
          /\ op'.outcome = "undecodable" => Target_after.message = <<>>
          /\ op'.outcome = "stored" =>
                /\ Len(Target_after.message) = 1
                /\ Target_after.message[1].id = op'.msg.id]_vars

\* Pipeline 2 is the only one and holds the message of the one record
\* inserted, which expects 1 while the record had id 2.
C14_Witness ==
  /\ op.kind = "insert_message"
  /\ op.outcome = "stored"
  /\ inserted = {2}
  /\ DOMAIN inner = {2}
  /\ Len(inner[2].message) = 1
  /\ op.msg.id = 2
  /\ inner[2].next_id = Some(1)
  /\ pipelines.config.discard_invalid_next_id

(***************************************************************************)
(* C15: the configuration the registry was constructed with stays as it    *)
(* is: no insert_message, no render and no failed parse changes            *)
(* discard_invalid_next_id.                                                *)
(***************************************************************************)
C15_ConfigIsFixed ==
  [][pipelines'.config.discard_invalid_next_id
       = pipelines.config.discard_invalid_next_id]_vars

\* A registry constructed to discard, after records were inserted and the
\* registry rendered: it still discards.
C15_Witness ==
  /\ op.kind = "fmt"
  /\ pipelines.config.discard_invalid_next_id
  /\ inserted = {1, 2}
  /\ Len(written.some) = 4

(***************************************************************************)
(* C16: in every reachable state, every pipeline of the registry is closed *)
(* exactly when it expects no next id: none is closed while it expects an  *)
(* id, none is open without expecting one.                                 *)
(***************************************************************************)
C16_ClosedIffNoExpectedNext ==
  \A p \in DOMAIN inner : inner[p].closed <=> is_none(inner[p].next_id)

\* Pipeline 1 is closed and expects nothing, pipeline 2 is open and expects
\* id 2, both after records of theirs were inserted.
C16_Witness ==
  /\ {1, 2} \subseteq DOMAIN inner
  /\ inner[1].closed /\ is_none(inner[1].next_id)
  /\ ~inner[2].closed /\ inner[2].next_id = Some(2)
  /\ inner[1].message # <<>>
  /\ op.kind = "insert_message"

(***************************************************************************)
(* C17: in a registry that discards, the chain-accepted records of a       *)
(* pipeline form an unbroken chain: each one after the first has the id    *)
(* that the chain-accepted record before it declared as next; hence a      *)
(* message added to a pipeline that had a record before has an id that an  *)
(* earlier chain-accepted record declared.                                 *)
(***************************************************************************)
C17_UnbrokenChain ==
  [][/\ pipelines.config.discard_invalid_next_id
     /\ Inserting
     /\ op'.msg.pipeline_id \in DOMAIN chain
     => LET p      == op'.msg.pipeline_id
            before == inner[p].message
            after  == pipelines'.inner[p].message
        IN /\ op'.outcome \in {"stored", "undecodable"} =>
                chain[p] = Some(op'.msg.id)
           /\ after # before =>
                /\ ~is_none(chain[p])
                /\ \E body \in {after[k].body : k \in 1..Len(after)} :
                     SameBag(after,
                             Append(before, [id |-> chain[p].some,
                                             body |-> body]))]_vars

\* A registry that discards holds, in pipeline 1, a message of id 1 and
\* one of id 2, the latter of the record just inserted.
C17_Witness ==
  /\ pipelines.config.discard_invalid_next_id
  /\ op.kind = "insert_message"
  /\ op.outcome = "stored"
  /\ op.msg.pipeline_id = 1
  /\ op.msg.id = 2
  /\ 1 \in DOMAIN inner
  /\ {inner[1].message[k].id : k \in 1..Len(inner[1].message)} = {1, 2}

(***************************************************************************)
(* C18: the messages only accumulate.  An insert_message leaves the        *)
(* messages of every other pipeline as they are and, in the pipeline of    *)
(* its record, either leaves the messages as they are or adds one to       *)
(* them, every message held before still held; a chain-accepted Ascii      *)
(* record always adds the message of its id and of its raw body.  No       *)
(* other step touches a message.                                           *)
(***************************************************************************)
C18_MessagesAccumulate ==
  [][IF Inserting
       THEN LET p      == op'.msg.pipeline_id
                before == IF p \in DOMAIN inner THEN inner[p].message
                          ELSE <<>>
                after  == pipelines'.inner[p].message
            IN /\ \A q \in DOMAIN inner \ {p} :
                    pipelines'.inner[q].message = inner[q].message
               /\ \/ after = before
                  \/ \E k \in 1..Len(after) :
                       SameBag(after, Append(before, after[k]))
               /\ Accepting /\ op'.msg.encoding = Ascii =>
                    SameBag(after,
                            Append(before, [id   |-> op'.msg.id,
                                            body |-> op'.msg.message]))
       ELSE pipelines' = pipelines]_vars

\* A second Ascii record of id 1 was accepted by pipeline 1, which held a
\* message of id 1 and now holds two.
C18_Witness ==
  /\ op.kind = "insert_message"
  /\ op.outcome = "stored"
  /\ op.msg.encoding = Ascii
  /\ op.msg.pipeline_id = 1
  /\ op.msg.id = 1
  /\ Len(inner[1].message) = 2
  /\ \A k \in 1..2 : inner[1].message[k].id = 1

\* The first position of stdin that holds an empty line, 0 if none does.
FirstEmpty ==
  LET at_empty == {i \in 1..Len(stdin.lines) :
                     stdin.lines[i] = Ok(Str(<<>>))}
  IN IF at_empty = {} THEN 0
     ELSE CHOOSE i \in at_empty : \A j \in at_empty : i <= j

RECURSIVE registry_of(_, _)
\* The registry main builds from the items, starting from self.
registry_of(self, items) ==
  IF items = <<>> \/ ~Head(items).ok THEN self
  ELSE LET r == parse(Head(items).val)
       IN registry_of(IF r.ok THEN insert_message(self, r.val) ELSE self,
                      Tail(items))

(***************************************************************************)
(* C19: main takes an empty line for the end of the input.  The empty      *)
(* line is not parsed; once it is read nothing more is read, parsed or     *)
(* inserted; when main is done the registry is the one that the lines      *)
(* before the first empty line build, whatever follows it.                 *)
(***************************************************************************)
C19_EmptyLineEndsInput ==
  /\ [][/\ stdin'.pos = FirstEmpty /\ stdin.pos # FirstEmpty =>
             /\ op'.kind = "break"
             /\ pc' = "done"
             /\ pipelines' = pipelines
        /\ FirstEmpty \in 1..stdin.pos =>
             /\ pipelines' = pipelines
             /\ stdin' = stdin
             /\ op' = op]_vars
  /\ [](pc = "done" /\ FirstEmpty # 0 =>
          pipelines = registry_of(Pipelines_new(PipelinesConfig_default),
                                  SubSeq(stdin.lines, 1, FirstEmpty - 1)))

\* main is done at the empty line that followed a record of pipeline 1;
\* the record of pipeline 2 that follows the empty line was not read.
C19_Witness ==
  /\ pc = "done"
  /\ op.kind = "break"
  /\ stdin.pos = 2
  /\ Len(stdin.lines) = 3
  /\ stdin.lines[3].ok
  /\ parse(stdin.lines[3].val).ok
  /\ parse(stdin.lines[3].val).val.pipeline_id = 2
  /\ DOMAIN inner = {1}

====
